---- MODULE Spec2Model ----
(***************************************************************************)
(* Model of create_ansible_vault_pass_file.py and question.py.             *)
(*                                                                         *)
(* One behaviour is one run of the script: argparse converts every         *)
(* --length occurrence with check_length_arg (which may prompt), then      *)
(* do_work runs the description short cut, the path type check,            *)
(* check_path (parent gate, overwrite gate) and the write of the token.    *)
(* Text is a sequence of one-character strings, so that str.lower() and    *)
(* int() are computed and not assumed.                                     *)
(***************************************************************************)
EXTENDS Integers, Sequences, FiniteSets, TLC

VARIABLES
    pc,             \* position of the run in the script
    argv,           \* the command line, fixed for the run
    pending,        \* --length occurrences argparse has not converted yet
    args,           \* the argparse.Namespace
    value,          \* check_length_arg: local `value`
    requested,      \* check_length_arg: the integer the current/last call started with
    returned,       \* check_length_arg: <<>> or <<v>>, the value of the last return
    callPrompts,    \* prompts issued by the current/last check_length_arg call
    overwrite,      \* check_path: parameter `overwrite`
    create_parents, \* check_path: parameter/local `create_parents`
    can_write,      \* do_work: <<>> before check_path returned, <<b>> after
    parentState,    \* file system: "none", "dir" or "notdir" (path.parent)
    fileExists,     \* file system: path.exists()
    fileData,       \* file system: the content of the target file
    parent0,        \* parentState when the run started
    fileExists0,    \* fileExists when the run started
    fileData0,      \* fileData when the run started
    asked,          \* how often each question was put to the user
    answers,        \* per question: <<>> or <<b>>, the last mapped answer
    last,           \* <<>> or <<r>>: the last prompt (question, default, line, answer)
    typed,          \* per path question: <<>> or <<line>>, the line typed at it
    call,           \* number of the current check_path call (1 in a run of the script)
    first,          \* what the first check_path call returned and did, once a second began
    linesRead,      \* lines consumed from standard input
    mkdirs,         \* successful path.parent.mkdir calls
    writes,         \* successful path.write_text calls
    raised,         \* the exception that ended the run, "none" otherwise
    exitCode        \* exit status of the process, -1 while it runs

vars == <<pc, argv, pending, args, value, requested, returned, callPrompts,
          overwrite, create_parents, can_write, parentState, fileExists,
          fileData, parent0, fileExists0, fileData0, asked,
          answers, last, typed, call, first, linesRead, mkdirs, writes,
          raised, exitCode>>

----------------------------------------------------------------------------
(* Bounds of the model *)

\* most --length occurrences on one command line
MaxLengthOpts == 2
\* distinct outcomes of the random source per token length
MaxNonce == 2

----------------------------------------------------------------------------
(* Program constants *)

recomended_length == 128

ExitLengthAbort == 3
ExitParentDeclined == 4
ExitOverwriteDeclined == 5
\* argparse's parser.error(), reached when a type function raises ArgumentTypeError
ExitArgparseError == 2
\* the interpreter's status for an uncaught exception
ExitUncaught == 1

----------------------------------------------------------------------------
(* Text *)

Upper == <<"Y", "N", "E", "S", "X">>
Lower == <<"y", "n", "e", "s", "x">>

\* str.lower() on one character
LowerChar(c) ==
    IF \E i \in 1..Len(Upper) : Upper[i] = c
    THEN Lower[CHOOSE i \in 1..Len(Upper) : Upper[i] = c]
    ELSE c

\* str.lower()
lower(s) == [i \in 1..Len(s) |-> LowerChar(s[i])]

Digits == <<"0", "1", "2", "3", "4", "5", "6", "7", "8", "9">>

IsDigit(c) == \E i \in 1..10 : Digits[i] = c

DigitVal(c) == (CHOOSE i \in 1..10 : Digits[i] = c) - 1

RECURSIVE DigitsVal(_)
DigitsVal(s) ==
    IF s = <<>> THEN 0
    ELSE 10 * DigitsVal(SubSeq(s, 1, Len(s) - 1)) + DigitVal(s[Len(s)])

\* int(text): [ok |-> FALSE] stands for ValueError
int(s) ==
    LET signed == s # <<>> /\ s[1] \in {"-", "+"}
        body   == IF signed THEN Tail(s) ELSE s
    IN  IF body # <<>> /\ \A i \in 1..Len(body) : IsDigit(body[i])
        THEN [ok |-> TRUE,
              val |-> IF signed /\ s[1] = "-" THEN 0 - DigitsVal(body)
                      ELSE DigitsVal(body)]
        ELSE [ok |-> FALSE, val |-> 0]

----------------------------------------------------------------------------
(* Inputs *)

\* the texts given to --length
LengthTexts ==
    { <<"8">>, <<"0">>, <<"-", "5">>, <<"1", "2", "8">>,
      <<"2", "0", "0">>, <<"a", "b", "c">> }

\* the lines the user types at a prompt
Responses ==
    { <<>>, <<"y">>, <<"Y">>, <<"n">>, <<"N">>, <<"x">>, <<"y", "e", "s">> }

Questions == {"short", "recommended", "parents", "overwrite"}

\* the questions of check_path
PathQuestions == {"parents", "overwrite"}

NoPath == [type |-> "NoneType", s |-> ""]
StrPath == [type |-> "str", s |-> "vault_pass"]

BoundedSeq(S, n) == UNION { [1..k -> S] : k \in 0..n }

CommandLines ==
    [ lengths : BoundedSeq(LengthTexts, MaxLengthOpts),
      path : {NoPath, StrPath},
      overwrite : BOOLEAN,
      create_parents : BOOLEAN,
      description : BOOLEAN ]

NoData == [nbytes |-> 0, nchars |-> 0, nonce |-> 0]
OldData == [nbytes |-> 16, nchars |-> 22, nonce |-> 0]

----------------------------------------------------------------------------
(* question.py *)

\* mutation: an unrecognised line falls back to the default
ask_yes_no_question_other_is_default(default, line) ==
    LET question == lower(line)
    IN  IF question = <<"y">> THEN TRUE
        ELSE IF question = <<"n">> THEN FALSE
        ELSE lower(default) = <<"y">>

\* ask_yes_no_question(promt, default) on the line read by input();
\* "unbound" stands for the UnboundLocalError of a default other than y/n
ask_yes_no_question(default, line) ==
    LET default_value ==
            IF lower(default) = <<"n">> THEN <<FALSE>>
            ELSE IF lower(default) = <<"y">> THEN <<TRUE>>
            ELSE <<>>
        question == lower(line)
    IN  IF default_value = <<>> THEN "unbound"
        ELSE IF question = <<>> THEN default_value[1]
        ELSE IF question = <<"y">> THEN TRUE
        ELSE IF question = <<"n">> THEN FALSE
        ELSE FALSE

\* the bookkeeping of one prompt: question q, default d, line r, answer a
Prompted(q, d, r, a) ==
    /\ asked' = [asked EXCEPT ![q] = @ + 1]
    /\ answers' = [answers EXCEPT ![q] = <<a>>]
    /\ last' = << [q |-> q, default |-> d, line |-> r, ans |-> a] >>
    /\ typed' = IF q \in PathQuestions THEN [typed EXCEPT ![q] = <<r>>]
                ELSE typed
    /\ linesRead' = linesRead + 1

NoPrompt == UNCHANGED <<asked, answers, last, typed, linesRead>>

----------------------------------------------------------------------------
(* The file system *)

\* path.parent.exists()
ParentExists == parentState # "none"

\* path.exists(): a file lies in a directory
PathExists == parentState = "dir" /\ fileExists

FsUnchanged == UNCHANGED <<parentState, fileExists, fileData>>

FsConst == UNCHANGED <<parent0, fileExists0, fileData0>>

\* no further call of check_path begins
SameCall == UNCHANGED <<call, first>>

\* `first` before a second call of check_path began
NoFirst ==
    [ret |-> <<>>, mkdirs |-> 0, asked |-> [q \in Questions |-> 0],
     answers |-> [q \in Questions |-> <<>>]]

----------------------------------------------------------------------------
(* Termination *)

\* sys.exit(code) / exit(code)
Exit(code) ==
    /\ pc' = "exited"
    /\ exitCode' = code
    /\ raised' = "none"

\* an exception `exc` ends the run with status `code`
Raise(exc, code) ==
    /\ pc' = "exited"
    /\ exitCode' = code
    /\ raised' = exc

Running == UNCHANGED <<exitCode, raised>>

----------------------------------------------------------------------------
Init ==
    /\ pc = "parse"
    /\ argv \in CommandLines
    /\ pending = argv.lengths
    /\ args = [length |-> recomended_length, path |-> NoPath,
               overwrite |-> FALSE, create_parents |-> FALSE,
               description |-> FALSE]
    /\ value = 0
    /\ requested = 0
    /\ returned = <<>>
    /\ callPrompts = 0
    /\ overwrite = FALSE
    /\ create_parents = FALSE
    /\ can_write = <<>>
    /\ parentState \in {"none", "dir", "notdir"}
    /\ fileExists \in BOOLEAN
    /\ fileExists => parentState = "dir"
    /\ fileData = IF fileExists THEN OldData ELSE NoData
    /\ parent0 = parentState
    /\ fileExists0 = fileExists
    /\ fileData0 = fileData
    /\ asked = [q \in Questions |-> 0]
    /\ answers = [q \in Questions |-> <<>>]
    /\ last = <<>>
    /\ typed = [q \in PathQuestions |-> <<>>]
    /\ call = 1
    /\ first = NoFirst
    /\ linesRead = 0
    /\ mkdirs = 0
    /\ writes = 0
    /\ raised = "none"
    /\ exitCode = -1


----------------------------------------------------------------------------
(* check_length_arg, called by argparse for every --length occurrence *)

\* mutation: the guard compares with <=
NeedsConfirmation_le(v) == v <= recomended_length

\* `value < recomended_length`: the interactive guard for short lengths
NeedsConfirmation(v) == v < recomended_length

\* the defaults the callers pass to ask_yes_no_question
\* mutation: the short-length prompt defaults to No
ShortDefault_no == <<"n">>
ShortDefault == <<"y">>
RecommendedDefault == <<"y">>
\* mutation: the parent-creation prompt defaults to No
ParentsDefault_no == <<"n">>
ParentsDefault == <<"y">>
\* mutation: the overwrite prompt defaults to Yes like the other prompts
OverwriteDefault_yes == <<"y">>
OverwriteDefault == <<"n">>

\* check_length_arg returns v; argparse stores it in the namespace
ReturnLength(v) ==
    /\ returned' = <<v>>
    /\ args' = [args EXCEPT !.length = v]
    /\ pc' = "parse"
    /\ Running

\* mutation: the fallback is the default of the older script, 16
RecommendedAccepted_16 == ReturnLength(16)

\* the recommended default was accepted at the second prompt
RecommendedAccepted == ReturnLength(recomended_length)

\* argparse takes the next --length text and calls check_length_arg up to
\* its first prompt, its return or its ArgumentTypeError
parse_args_length ==
    /\ pc = "parse"
    /\ pending # <<>>
    /\ pending' = Tail(pending)
    /\ LET parsed == int(Head(pending))
       IN  IF ~parsed.ok
           THEN /\ Raise("ArgumentTypeError", ExitArgparseError)
                /\ UNCHANGED <<args, value, requested, returned, callPrompts>>
           ELSE /\ value' = parsed.val
                /\ requested' = parsed.val
                /\ callPrompts' = 0
                /\ IF NeedsConfirmation(parsed.val)
                   THEN /\ pc' = "length_q1"
                        /\ returned' = <<>>
                        /\ UNCHANGED args
                        /\ Running
                   ELSE ReturnLength(parsed.val)
    /\ NoPrompt
    /\ FsUnchanged
    /\ FsConst
    /\ SameCall
    /\ UNCHANGED <<argv, overwrite, create_parents, can_write, mkdirs, writes>>

\* first confirmation: continue with the short value?
check_length_arg_q1 ==
    /\ pc = "length_q1"
    /\ \E line \in Responses :
        LET secret_question == ask_yes_no_question(ShortDefault, line)
        IN  /\ Prompted("short", ShortDefault, line, secret_question)
            /\ callPrompts' = callPrompts + 1
            /\ IF secret_question
               THEN ReturnLength(value)
               ELSE /\ pc' = "length_q2"
                    /\ UNCHANGED <<returned, args>>
                    /\ Running
    /\ FsUnchanged
    /\ FsConst
    /\ SameCall
    /\ UNCHANGED <<argv, pending, value, requested, overwrite, create_parents,
                   can_write, mkdirs, writes>>

\* second prompt: switch to the recommended default?
check_length_arg_q2 ==
    /\ pc = "length_q2"
    /\ \E line \in Responses :
        LET secret_question == ask_yes_no_question(RecommendedDefault, line)
        IN  /\ Prompted("recommended", RecommendedDefault, line, secret_question)
            /\ callPrompts' = callPrompts + 1
            /\ IF secret_question
               THEN RecommendedAccepted
               ELSE /\ Exit(ExitLengthAbort)
                    /\ UNCHANGED <<returned, args>>
    /\ FsUnchanged
    /\ FsConst
    /\ SameCall
    /\ UNCHANGED <<argv, pending, value, requested, overwrite, create_parents,
                   can_write, mkdirs, writes>>

\* parse_args returns: --path and the store_true flags are in the namespace
parse_args_return ==
    /\ pc = "parse"
    /\ pending = <<>>
    /\ args' = [args EXCEPT !.path = argv.path,
                            !.overwrite = argv.overwrite,
                            !.create_parents = argv.create_parents,
                            !.description = argv.description]
    /\ pc' = "do_work"
    /\ Running
    /\ NoPrompt
    /\ FsUnchanged
    /\ FsConst
    /\ SameCall
    /\ UNCHANGED <<argv, pending, value, requested, returned, callPrompts,
                   overwrite, create_parents, can_write, mkdirs, writes>>

----------------------------------------------------------------------------
(* do_work and check_path *)

\* secrets.token_urlsafe(n): n random bytes in unpadded URL-safe Base64
generate_secret(length, nonce) ==
    [nbytes |-> length, nchars |-> (4 * length + 2) \div 3, nonce |-> nonce]

\* mutation: the token is written before the path has been checked
CallCheckPath_after_write ==
    /\ pc' = "parent_gate"
    /\ overwrite' = args.overwrite
    /\ create_parents' = args.create_parents
    /\ Running
    /\ IF parentState = "dir" /\ args.length >= 0
       THEN /\ fileExists' = TRUE
            /\ fileData' = generate_secret(args.length, 1)
            /\ writes' = writes + 1
            /\ UNCHANGED parentState
       ELSE /\ FsUnchanged
            /\ UNCHANGED writes

\* do_work calls check_path with the flags of the namespace
CallCheckPath ==
    /\ pc' = "parent_gate"
    /\ overwrite' = args.overwrite
    /\ create_parents' = args.create_parents
    /\ Running
    /\ FsUnchanged
    /\ UNCHANGED writes

\* do_work up to the call of check_path
do_work ==
    /\ pc = "do_work"
    /\ IF args.description
       THEN /\ Exit(0)
            /\ FsUnchanged
            /\ UNCHANGED <<overwrite, create_parents, writes>>
       ELSE IF args.path.type # "str"
       THEN /\ Raise("ArgumentTypeError", ExitUncaught)
            /\ FsUnchanged
            /\ UNCHANGED <<overwrite, create_parents, writes>>
       ELSE CallCheckPath
    /\ NoPrompt
    /\ FsConst
    /\ SameCall
    /\ UNCHANGED <<argv, pending, args, value, requested, returned,
                   callPrompts, can_write, mkdirs>>

\* mutation: a missing parent is created without asking
MissingParentBranch_no_prompt == "mkdir"

\* the parent is missing: prompt unless create_parents was passed
MissingParentBranch == IF ~create_parents THEN "parent_q" ELSE "mkdir"

\* mutation: the parent gate does not look whether the parent exists
ParentMissing_unchecked == TRUE

\* `not path.parent.exists()`
ParentMissing == ~ParentExists

\* parent directory handling: which branch is taken
check_path_parent ==
    /\ pc = "parent_gate"
    /\ pc' = IF ParentMissing THEN MissingParentBranch ELSE "overwrite_gate"
    /\ Running
    /\ NoPrompt
    /\ FsUnchanged
    /\ FsConst
    /\ SameCall
    /\ UNCHANGED <<argv, pending, args, value, requested, returned,
                   callPrompts, overwrite, create_parents, can_write, mkdirs,
                   writes>>

\* the parent-creation prompt
check_path_parent_q ==
    /\ pc = "parent_q"
    /\ \E line \in Responses :
        LET create_parents_question == ask_yes_no_question(ParentsDefault, line)
        IN  /\ Prompted("parents", ParentsDefault, line, create_parents_question)
            /\ create_parents' = IF create_parents_question THEN TRUE
                                 ELSE create_parents
            /\ IF create_parents'
               THEN /\ pc' = "mkdir"
                    /\ Running
               ELSE Exit(ExitParentDeclined)
    /\ FsUnchanged
    /\ FsConst
    /\ SameCall
    /\ UNCHANGED <<argv, pending, args, value, requested, returned,
                   callPrompts, overwrite, can_write, mkdirs, writes>>

\* mutation: path.mkdir instead of path.parent.mkdir, the target itself
\* becomes a directory
check_path_mkdir_of_target ==
    /\ pc = "mkdir"
    /\ parentState' = "dir"
    /\ fileExists' = TRUE
    /\ mkdirs' = mkdirs + 1
    /\ pc' = "overwrite_gate"
    /\ Running
    /\ NoPrompt
    /\ FsConst
    /\ SameCall
    /\ UNCHANGED <<argv, pending, args, value, requested, returned,
                   callPrompts, overwrite, create_parents, can_write,
                   fileData, writes>>

\* path.parent.mkdir(parents=True): the chain is created, or the operating
\* system refuses (PermissionError, ...) and the OSError ends the run
\* (mkdir has no exist_ok: on an existing parent it raises FileExistsError)
check_path_mkdir ==
    /\ pc = "mkdir"
    /\ IF ParentExists
       THEN /\ Raise("FileExistsError", ExitUncaught)
            /\ UNCHANGED <<parentState, mkdirs>>
       ELSE \/ /\ parentState' = "dir"
               /\ mkdirs' = mkdirs + 1
               /\ pc' = "overwrite_gate"
               /\ Running
            \/ /\ Raise("OSError", ExitUncaught)
               /\ UNCHANGED <<parentState, mkdirs>>
    /\ NoPrompt
    /\ FsConst
    /\ SameCall
    /\ UNCHANGED <<argv, pending, args, value, requested, returned,
                   callPrompts, overwrite, create_parents, can_write,
                   fileExists, fileData, writes>>

\* mutation: check_path reports failure where it should authorize
ReturnTrue_false ==
    /\ can_write' = <<FALSE>>
    /\ pc' = "write"
    /\ Running

\* check_path returns True to do_work
ReturnTrue ==
    /\ can_write' = <<TRUE>>
    /\ pc' = "write"
    /\ Running

\* existing file handling: which branch is taken
check_path_overwrite ==
    /\ pc = "overwrite_gate"
    /\ IF ParentExists /\ PathExists
       THEN IF ~overwrite
            THEN /\ pc' = "overwrite_q"
                 /\ UNCHANGED can_write
                 /\ Running
            ELSE ReturnTrue
       ELSE ReturnTrue
    /\ NoPrompt
    /\ FsUnchanged
    /\ FsConst
    /\ SameCall
    /\ UNCHANGED <<argv, pending, args, value, requested, returned,
                   callPrompts, overwrite, create_parents, mkdirs, writes>>

\* mutation: a declined overwrite falls through to the final return True
OverwriteDeclined_falls_through == ReturnTrue

\* mutation: a declined overwrite exits with the code of the parent gate
OverwriteDeclined_exit_4 ==
    /\ Exit(ExitParentDeclined)
    /\ UNCHANGED can_write

\* the user declined to overwrite the existing file
OverwriteDeclined ==
    /\ Exit(ExitOverwriteDeclined)
    /\ UNCHANGED can_write

\* the overwrite prompt
check_path_overwrite_q ==
    /\ pc = "overwrite_q"
    /\ \E line \in Responses :
        LET overwrite_question == ask_yes_no_question(OverwriteDefault, line)
        IN  /\ Prompted("overwrite", OverwriteDefault, line, overwrite_question)
            /\ IF overwrite_question
               THEN ReturnTrue
               ELSE OverwriteDeclined
    /\ FsUnchanged
    /\ FsConst
    /\ SameCall
    /\ UNCHANGED <<argv, pending, args, value, requested, returned,
                   callPrompts, overwrite, create_parents, mkdirs, writes>>

\* do_work after check_path: generate the token and write it
do_work_write ==
    /\ pc = "write"
    /\ IF can_write[1]
       THEN IF args.length < 0
            THEN \* os.urandom: negative argument not allowed
                 /\ Raise("ValueError", ExitUncaught)
                 /\ UNCHANGED <<fileExists, fileData, writes>>
            ELSE IF parentState # "dir"
            THEN \* open() fails: NotADirectoryError
                 /\ Raise("OSError", ExitUncaught)
                 /\ UNCHANGED <<fileExists, fileData, writes>>
            ELSE \/ /\ \E nonce \in 1..MaxNonce :
                           fileData' = generate_secret(args.length, nonce)
                    /\ fileExists' = TRUE
                    /\ writes' = writes + 1
                    /\ Exit(0)
                 \/ \* open() fails: PermissionError, ...
                    /\ Raise("OSError", ExitUncaught)
                    /\ UNCHANGED <<fileExists, fileData, writes>>
       ELSE /\ Exit(0)
            /\ UNCHANGED <<fileExists, fileData, writes>>
    /\ NoPrompt
    /\ FsConst
    /\ SameCall
    /\ UNCHANGED <<argv, pending, args, value, requested, returned,
                   callPrompts, overwrite, create_parents, can_write,
                   parentState, mkdirs>>

----------------------------------------------------------------------------
Next ==
    \/ parse_args_length
    \/ check_length_arg_q1
    \/ check_length_arg_q2
    \/ parse_args_return
    \/ do_work
    \/ check_path_parent
    \/ check_path_parent_q
    \/ check_path_mkdir
    \/ check_path_overwrite
    \/ check_path_overwrite_q
    \/ do_work_write

Spec == Init /\ [][Next]_vars

----------------------------------------------------------------------------
(* check_path on its own: called with every combination of its arguments on
   every file system state, and called a second time after it returned *)

\* do_work has called check_path(path, overwrite, create_parents)
InitCheckPath ==
    /\ pc = "parent_gate"
    /\ argv \in { c \in CommandLines :
                    c.lengths = <<>> /\ c.path = StrPath /\ ~c.description }
    /\ pending = <<>>
    /\ args = [length |-> recomended_length, path |-> argv.path,
               overwrite |-> argv.overwrite,
               create_parents |-> argv.create_parents,
               description |-> FALSE]
    /\ value = 0
    /\ requested = 0
    /\ returned = <<>>
    /\ callPrompts = 0
    /\ overwrite = args.overwrite
    /\ create_parents = args.create_parents
    /\ can_write = <<>>
    /\ parentState \in {"none", "dir", "notdir"}
    /\ fileExists \in BOOLEAN
    /\ fileExists => parentState = "dir"
    /\ fileData = IF fileExists THEN OldData ELSE NoData
    /\ parent0 = parentState
    /\ fileExists0 = fileExists
    /\ fileData0 = fileData
    /\ asked = [q \in Questions |-> 0]
    /\ answers = [q \in Questions |-> <<>>]
    /\ last = <<>>
    /\ typed = [q \in PathQuestions |-> <<>>]
    /\ call = 1
    /\ first = NoFirst
    /\ linesRead = 0
    /\ mkdirs = 0
    /\ writes = 0
    /\ raised = "none"
    /\ exitCode = -1

\* check_path returned; it is called again with the same arguments
check_path_again ==
    /\ pc = "write"
    /\ call = 1
    /\ call' = 2
    /\ first' = [ret |-> can_write, mkdirs |-> mkdirs, asked |-> asked,
                 answers |-> answers]
    /\ pc' = "parent_gate"
    /\ overwrite' = args.overwrite
    /\ create_parents' = args.create_parents
    /\ can_write' = <<>>
    /\ Running
    /\ NoPrompt
    /\ FsUnchanged
    /\ FsConst
    /\ UNCHANGED <<argv, pending, args, value, requested, returned,
                   callPrompts, mkdirs, writes>>

NextCheckPath ==
    \/ check_path_parent
    \/ check_path_parent_q
    \/ check_path_mkdir
    \/ check_path_overwrite
    \/ check_path_overwrite_q
    \/ check_path_again

CheckPathSpec == InitCheckPath /\ [][NextCheckPath]_vars

\* The script is sequential: a step that can be taken is taken, and input()
\* returns once the user has typed a line.
FairSpec == Spec /\ WF_vars(Next)

TypeOK ==
    /\ pc \in {"parse", "length_q1", "length_q2", "do_work", "parent_gate",
               "parent_q", "mkdir", "overwrite_gate", "overwrite_q", "write",
               "exited"}
    /\ argv \in CommandLines
    /\ args.length \in Int
    /\ parentState \in {"none", "dir", "notdir"}
    /\ fileExists \in BOOLEAN
    /\ exitCode \in -1..5
    /\ (pc = "exited") = (exitCode # -1)

----------------------------------------------------------------------------
(* create_vault_pass_file.py: the older check_path *)

\* check_path of the older script on parent state `parent`, file existence
\* `exists`, its two flags, the lines typed at its two prompts and the
\* outcome of mkdir; file_ok is <<>> while unassigned
old_check_path(parent, exists, overwrite_arg, create_parents_arg, line_p, line_o, mkdir_ok) ==
    LET asks_parents == parent = "none" /\ ~create_parents_arg
        create_parents_question == lower(line_p)
        create_parents_1 ==
            IF asks_parents
            THEN IF Len(create_parents_question) = 0
                    \/ Len(create_parents_question) = 1
                 THEN IF create_parents_question = <<"y">> THEN TRUE
                      ELSE IF create_parents_question = <<>> THEN TRUE
                      ELSE FALSE
                 ELSE FALSE
            ELSE create_parents_arg
        calls_mkdir == parent = "none" /\ create_parents_1
        parent_1 == IF calls_mkdir /\ mkdir_ok THEN "dir" ELSE parent
        parent_exists == parent_1 # "none"
        path_exists == parent_1 = "dir" /\ exists
        file_ok_1 == IF parent_exists /\ ~path_exists THEN <<TRUE>> ELSE <<>>
        asks_overwrite == parent_exists /\ path_exists /\ ~overwrite_arg
        overwrite_question == lower(line_o)
        overwrite_1 ==
            IF asks_overwrite
            THEN IF Len(overwrite_question) = 1 \/ Len(overwrite_question) = 1
                 THEN IF overwrite_question = <<"n">> THEN FALSE
                      ELSE IF overwrite_question = <<>> THEN FALSE
                      ELSE IF overwrite_question = <<"y">> THEN TRUE
                      ELSE overwrite_arg
                 ELSE FALSE
            ELSE overwrite_arg
        file_ok_2 == IF parent_exists /\ path_exists /\ overwrite_1
                     THEN <<TRUE>> ELSE file_ok_1
        file_ok_3 == IF parent_exists /\ path_exists /\ ~overwrite_1
                     THEN <<FALSE>> ELSE file_ok_2
    IN  [ raised |-> calls_mkdir /\ ~mkdir_ok,
          unbound |-> parent_exists /\ file_ok_3 = <<>>,
          ret |-> parent_exists /\ file_ok_3 # <<>> /\ file_ok_3[1],
          mkdir |-> calls_mkdir /\ mkdir_ok,
          asked_parents |-> asks_parents,
          asked_overwrite |-> asks_overwrite ]

----------------------------------------------------------------------------
(* Vocabulary of the properties *)

\* the last prompt put question q
LastIs(q) == last # <<>> /\ last[1].q = q

\* the last prompt put question q and was mapped to No
Declined(q) == LastIs(q) /\ ~last[1].ans

Exited(code) == pc = "exited" /\ exitCode = code

TotalAsked ==
    asked["short"] + asked["recommended"] + asked["parents"] + asked["overwrite"]

\* argparse has called check_length_arg at least once
Called == Len(pending) < Len(argv.lengths)

UserAbortCodes ==
    {ExitLengthAbort, ExitParentDeclined, ExitOverwriteDeclined}

FileUntouched ==
    /\ writes = 0
    /\ fileExists = fileExists0
    /\ fileData = fileData0

----------------------------------------------------------------------------
(* C1 *)

\* C1: when check_path has returned True while the target file exists, the
\* overwrite flag was passed or the overwrite prompt was answered y / Y; any
\* other line at the overwrite prompt ends the process with code 5 and
\* check_path does not return.
C1_OverwriteNeedsFlagOrYes ==
    /\ (pc = "write" /\ can_write = <<TRUE>> /\ PathExists) =>
            \/ overwrite
            \/ (LastIs("overwrite") /\ last[1].line \in {<<"y">>, <<"Y">>})
    /\ (LastIs("overwrite") /\ last[1].line \notin {<<"y">>, <<"Y">>}) =>
            (Exited(ExitOverwriteDeclined) /\ can_write = <<>>)

C1_Witness ==
    /\ pc = "write"
    /\ can_write = <<TRUE>>
    /\ PathExists
    /\ ~overwrite
    /\ LastIs("overwrite")
    /\ last[1].line = <<"Y">>

----------------------------------------------------------------------------
(* C2 *)

\* C2: a run that ended in a user abort (exit code 3, 4 or 5) has executed
\* no write: the target file has the content it had when the run started,
\* and a file that did not exist still does not exist.
C2_AbortNeverWrites ==
    (pc = "exited" /\ exitCode \in UserAbortCodes) => FileUntouched

C2_Witness ==
    /\ Exited(ExitOverwriteDeclined)
    /\ fileExists0
    /\ fileData = OldData
    /\ Called

----------------------------------------------------------------------------
(* C3 *)

\* C3: the parent chain is created only when the parent was missing and
\* create_parents was passed or the parent-creation prompt was answered
\* affirmatively; a declined prompt ends the process with code 4 and neither
\* a directory nor a file has been created.
C3_MkdirNeedsFlagOrYes ==
    /\ (mkdirs > 0 \/ parentState # parent0) =>
            /\ parent0 = "none"
            /\ mkdirs = 1
            /\ (args.create_parents \/ answers["parents"] = <<TRUE>>)
    /\ (answers["parents"] = <<FALSE>>) =>
            /\ Exited(ExitParentDeclined)
            /\ mkdirs = 0
            /\ parentState = parent0
            /\ FileUntouched

C3_Witness ==
    /\ mkdirs = 1
    /\ parentState = "dir"
    /\ ~args.create_parents
    /\ answers["parents"] = <<TRUE>>
    /\ pc = "overwrite_gate"

----------------------------------------------------------------------------
(* C4 *)

\* C4: a call of check_length_arg with requested >= 128 returns requested
\* unchanged and issues no prompt (it never waits at either length prompt).
C4_LongLengthSilent ==
    (Called /\ raised # "ArgumentTypeError" /\ requested >= recomended_length) =>
        /\ pc \notin {"length_q1", "length_q2"}
        /\ returned = <<requested>>
        /\ callPrompts = 0

C4_Witness ==
    /\ requested = 200
    /\ returned = <<200>>
    /\ args.length = 200
    /\ TotalAsked = 0

----------------------------------------------------------------------------
(* C5 *)

\* C5: a call of check_length_arg with requested < 128 issues one or two
\* prompts, never a third, and a value it returns is requested or 128.
C5_ShortLengthOneOrTwoPrompts ==
    (Called /\ requested < recomended_length) =>
        /\ callPrompts \in 0..2
        /\ (pc = "length_q1") => callPrompts = 0
        /\ (pc = "length_q2") => callPrompts = 1
        /\ (returned # <<>>) =>
                /\ callPrompts \in {1, 2}
                /\ returned[1] \in {requested, recomended_length}
        /\ Exited(ExitLengthAbort) => callPrompts = 2

C5_Witness ==
    /\ requested = 8
    /\ returned = <<recomended_length>>
    /\ callPrompts = 2

----------------------------------------------------------------------------
(* C6 *)

\* C6: the three user aborts end the process with pairwise distinct codes,
\* none of them 0, each code used by its abort alone, and a run that wrote
\* the file ends with status 0.
C6_ExitCodesDistinct ==
    /\ Cardinality(UserAbortCodes \cup {0}) = 4
    /\ Declined("recommended") <=> Exited(ExitLengthAbort)
    /\ Declined("parents") <=> Exited(ExitParentDeclined)
    /\ Declined("overwrite") <=> Exited(ExitOverwriteDeclined)
    /\ (writes > 0) => Exited(0)

C6_Witness ==
    /\ Declined("recommended")
    /\ Exited(ExitLengthAbort)
    /\ asked["short"] = 2

----------------------------------------------------------------------------
(* C7 *)

\* C7: ask_yes_no_question with default y or n reads one line per prompt and
\* maps it without raising: y / Y to True, n / N to False, the empty line to
\* the default polarity, every other line to False.
C7_AnswerTable ==
    /\ linesRead = TotalAsked
    /\ (last # <<>>) =>
        LET r == last[1]
        IN  /\ r.default \in {<<"y">>, <<"n">>}
            /\ r.ans \in BOOLEAN
            /\ r.ans = IF r.line \in {<<"y">>, <<"Y">>} THEN TRUE
                       ELSE IF r.line \in {<<"n">>, <<"N">>} THEN FALSE
                       ELSE IF r.line = <<>> THEN r.default = <<"y">>
                       ELSE FALSE

C7_Witness ==
    /\ last # <<>>
    /\ last[1].default = <<"y">>
    /\ last[1].line = <<"y", "e", "s">>
    /\ last[1].ans = FALSE
    /\ linesRead = 1

----------------------------------------------------------------------------
(* C8 *)

\* C8: the empty line at the parent-creation prompt counts as Yes (mkdir is
\* the next step, and the chain exists afterwards unless the operating system
\* refused), the empty line at the overwrite prompt counts as No (exit code
\* 5, the existing file unchanged).
C8_OppositeDefaults ==
    /\ (LastIs("parents") /\ last[1].line = <<>>) =>
            /\ create_parents
            /\ exitCode # ExitParentDeclined
            /\ \/ pc = "mkdir"
               \/ (mkdirs = 1 /\ parentState = "dir")
               \/ (mkdirs = 0 /\ raised = "OSError")
    /\ (LastIs("overwrite") /\ last[1].line = <<>>) =>
            /\ Exited(ExitOverwriteDeclined)
            /\ FileUntouched
            /\ fileExists

C8_Witness ==
    /\ LastIs("parents")
    /\ last[1].line = <<>>
    /\ mkdirs = 1
    /\ writes = 1
    /\ Exited(0)

----------------------------------------------------------------------------
(* C9 *)

\* C9: with the description flag on the command line the process exits with
\* status 0 before any prompt, directory creation or write.
C9_DescriptionBeforeEverything ==
    argv.description =>
        /\ TotalAsked = 0
        /\ pc \notin {"length_q1", "length_q2"}
        /\ mkdirs = 0
        /\ writes = 0
        /\ (pc = "exited") => exitCode = 0

----------------------------------------------------------------------------
(* C10 *)

\* C10: an invalid input (non-integer --length text, --path not a string)
\* ends the process with a non-zero status before any prompt was shown.
C10_InvalidInputBeforePrompts ==
    (raised = "ArgumentTypeError") =>
        /\ exitCode # 0
        /\ TotalAsked = 0

----------------------------------------------------------------------------
(* C11 *)

\* C11: whenever check_path has returned True, the parent of the target path
\* exists and is a directory.
C11_ParentDirectoryExists ==
    (pc = "write" /\ can_write = <<TRUE>>) => parentState = "dir"

----------------------------------------------------------------------------
(* C12 *)

\* C12: the length that reaches generate_secret is an integer >= 1, and a
\* token that was written is not empty.
C12_LengthAtLeastOne ==
    /\ (pc = "write") => args.length >= 1
    /\ (writes > 0) => fileData.nchars > 0

----------------------------------------------------------------------------
(* C13 *)

\* a run that ended without user abort and without an exception
CleanEnd ==
    /\ pc = "exited"
    /\ exitCode \notin UserAbortCodes
    /\ raised = "none"

PcRank ==
    CASE pc = "exited" -> 0
      [] pc = "write" -> 1
      [] pc = "overwrite_q" -> 2
      [] pc = "overwrite_gate" -> 3
      [] pc = "mkdir" -> 4
      [] pc = "parent_q" -> 5
      [] pc = "parent_gate" -> 6
      [] pc = "do_work" -> 7
      [] pc = "parse" -> 8
      [] pc = "length_q2" -> 9
      [] pc = "length_q1" -> 10

Rank == PcRank + 3 * Len(pending)

----------------------------------------------------------------------------
(* C14 *)

\* the second call of check_path, made with create_parents=True
SecondCall == call = 2 /\ args.create_parents

SecondCallQuiet ==
    /\ raised = "none"
    /\ mkdirs = first.mkdirs
    /\ asked["parents"] = first.asked["parents"]
    /\ pc \notin {"parent_q", "mkdir"}

\* C14 as stated: the second call raises nothing, creates no directory, puts
\* no parent-creation prompt and ends with the result of the first call.
C14_SecondCallSameResult ==
    SecondCall =>
        /\ SecondCallQuiet
        /\ pc # "exited"
        /\ (pc = "write") => can_write = first.ret

\* C14 amended: the second call raises nothing, creates no directory and puts
\* no parent-creation prompt; it returns what the first call returned, unless
\* the overwrite prompt, put again, is answered Yes the first time and No the
\* second time, which ends it with code 5.
C14_SecondCallSameResultForSameAnswer ==
    SecondCall =>
        /\ SecondCallQuiet
        /\ (pc = "write") => can_write = first.ret
        /\ (pc = "exited") =>
                /\ exitCode = ExitOverwriteDeclined
                /\ ~overwrite
                /\ first.answers["overwrite"] = <<TRUE>>
                /\ answers["overwrite"] = <<FALSE>>
        /\ (asked["overwrite"] > first.asked["overwrite"]
                /\ answers["overwrite"] = first.answers["overwrite"]) =>
                (pc = "write" /\ can_write = first.ret)

C14_Witness ==
    /\ SecondCall
    /\ pc = "write"
    /\ can_write = <<TRUE>>
    /\ parent0 = "none"
    /\ first.mkdirs = 1
    /\ mkdirs = 1

----------------------------------------------------------------------------
(* C15 *)

\* the lines ask_yes_no_question maps to Yes under default 'y'
YesLines == { <<>>, <<"y">>, <<"Y">> }

\* the last prompt was put by the current check_length_arg call
InCallLast(q) == Called /\ callPrompts >= 1 /\ LastIs(q)

\* C15: for requested < 128, a Yes (y, Y or the empty line) at the first
\* prompt returns requested after one prompt; a No leads to the second
\* prompt, where a Yes returns 128 after two prompts and a No exits with
\* code 3 with no file or directory touched.
C15_LengthDecisionTable ==
    /\ InCallLast("short") =>
            /\ requested < recomended_length
            /\ callPrompts = 1
            /\ IF last[1].line \in YesLines
               THEN returned = <<requested>> /\ args.length = requested
               ELSE pc = "length_q2" /\ returned = <<>>
    /\ InCallLast("recommended") =>
            /\ requested < recomended_length
            /\ callPrompts = 2
            /\ answers["short"] = <<FALSE>>
            /\ IF last[1].line \in YesLines
               THEN /\ returned = <<recomended_length>>
                    /\ args.length = recomended_length
               ELSE /\ Exited(ExitLengthAbort)
                    /\ returned = <<>>
                    /\ FileUntouched
                    /\ mkdirs = 0
                    /\ parentState = parent0

C15_Witness ==
    /\ InCallLast("recommended")
    /\ requested = 8
    /\ last[1].line = <<"y">>
    /\ args.length = recomended_length
    /\ asked["short"] = 1

----------------------------------------------------------------------------
(* C16 *)

LengthPrompts == asked["short"] + asked["recommended"]

PathPrompts == asked["parents"] + asked["overwrite"]

\* C16: a length prompt is put only while no path prompt, directory creation
\* or write has happened; the parent gate (prompt, mkdir) acts only before
\* the overwrite prompt and before check_path returned; the overwrite gate is
\* reached only with the parent gate passed (the parent exists); the token is
\* written only after check_path returned True.
C16_FixedOrder ==
    /\ [][(LengthPrompts' > LengthPrompts) =>
            (PathPrompts = 0 /\ mkdirs = 0 /\ writes = 0 /\ can_write = <<>>)]_vars
    /\ [][(asked["parents"]' > asked["parents"] \/ mkdirs' > mkdirs) =>
            (asked["overwrite"] = 0 /\ can_write = <<>> /\ writes = 0)]_vars
    /\ [][(asked["overwrite"]' > asked["overwrite"]) =>
            (ParentExists /\ can_write = <<>> /\ writes = 0)]_vars
    /\ [][(writes' > writes) =>
            (can_write = <<TRUE>> /\ pending = <<>> /\ ParentExists)]_vars
    /\ [](pc \in {"overwrite_gate", "overwrite_q"} => ParentExists)
    /\ [](pc \in {"parse", "length_q1", "length_q2", "do_work"} =>
            (PathPrompts = 0 /\ mkdirs = 0 /\ writes = 0))

C16_Witness ==
    /\ writes = 1
    /\ asked["short"] = 1
    /\ asked["recommended"] = 1
    /\ asked["parents"] = 1
    /\ mkdirs = 1
    /\ args.length = recomended_length

----------------------------------------------------------------------------
(* C17 *)

\* C17: in one run each confirmation question is put at most once.
C17_EachQuestionAtMostOnce ==
    \A q \in Questions : asked[q] <= 1

----------------------------------------------------------------------------
(* C18 *)

\* C18: when check_path has created the parent chain the target file does
\* not exist at the overwrite gate, no overwrite prompt is put and check_path
\* returns True; the two path prompts never both occur in a run, and no run
\* ends in a user abort after a directory was created.
C18_CreatedParentSkipsOverwriteGate ==
    /\ (mkdirs > 0) =>
            /\ asked["overwrite"] = 0
            /\ pc # "overwrite_q"
            /\ (pc = "overwrite_gate") => ~PathExists
            /\ (pc = "write") => can_write = <<TRUE>>
            /\ (pc = "exited") =>
                    (exitCode \notin UserAbortCodes /\ can_write = <<TRUE>>)
    /\ ~(asked["parents"] > 0 /\ asked["overwrite"] > 0)

C18_Witness ==
    /\ mkdirs = 1
    /\ pc = "write"
    /\ can_write = <<TRUE>>
    /\ args.create_parents
    /\ asked["parents"] = 0
    /\ asked["overwrite"] = 0

----------------------------------------------------------------------------
(* C19 *)

\* the first call of check_path has ended
FirstCallEnded == call = 1 /\ pc \in {"write", "exited"}

\* C19: on the file system, the flags and the lines of a finished call of the
\* newer check_path, the older check_path puts the same prompts, creates the
\* parent in the same cases, returns True exactly when the newer returned
\* True and False exactly when the newer exited with 4 or 5, and never reads
\* file_ok unassigned.
C19_OlderCheckPathAgrees ==
    FirstCallEnded =>
        \A lp \in Responses, lo \in Responses, mk \in BOOLEAN :
            ( /\ typed["parents"] \in {<<>>, <<lp>>}
              /\ typed["overwrite"] \in {<<>>, <<lo>>}
              /\ (raised = "OSError") => ~mk
              /\ (mkdirs > 0) => mk ) =>
            LET old == old_check_path(parent0, fileExists0, args.overwrite,
                                      args.create_parents, lp, lo, mk)
            IN  /\ ~old.unbound
                /\ old.asked_parents <=> asked["parents"] = 1
                /\ old.asked_overwrite <=> asked["overwrite"] = 1
                /\ old.raised <=> raised = "OSError"
                /\ old.mkdir <=> mkdirs = 1
                /\ ~old.raised =>
                    /\ old.ret <=> (pc = "write" /\ can_write = <<TRUE>>)
                    /\ ~old.ret <=> (Exited(ExitParentDeclined)
                                        \/ Exited(ExitOverwriteDeclined))

C19_Witness ==
    /\ FirstCallEnded
    /\ Exited(ExitOverwriteDeclined)
    /\ typed["overwrite"] = <<"x">>
    /\ ~old_check_path(parent0, fileExists0, args.overwrite,
                       args.create_parents, <<>>, <<"x">>, TRUE).ret

====
